---- MODULE Spec2Model ----
(***************************************************************************)
(* A model of build_schema.go: BuildAstSchema / buildSchemaConfig turn a   *)
(* parsed SDL document into a SchemaConfig, and the field / interface      *)
(* thunks of the constructed types are forced afterwards.                  *)
(*                                                                         *)
(* A type value is a record [origin, kind, name, wrap]: origin 0 is a      *)
(* pre-built standard type, origin j > 0 is the object constructed by the  *)
(* buildType call for typeDefs[j] (every call allocates a new object, so   *)
(* equality of records is pointer identity); wrap is the sequence of       *)
(* List / NonNull wrappers, outermost first, empty for a named type.       *)
(***************************************************************************)
EXTENDS Integers, Sequences, FiniteSets, TLC

\* Longest document (number of top-level definitions) the model explores.
MaxDefs == 3
\* Deepest nesting of List / NonNull wrappers in the type references explored.
MaxWrap == 3
\* Most builds one process runs.
MaxBuilds == 3

----------------------------------------------------------------------------
\* AST nodes

NamedRef(n) == [wrap |-> <<>>, name |-> n]
ListRef(t) == [t EXCEPT !.wrap = <<"List">> \o @]
NonNullRef(t) == [t EXCEPT !.wrap = <<"NonNull">> \o @]

Arg(n, t) == [name |-> n, type |-> t]
Field(n, t, as) == [name |-> n, type |-> t, args |-> as]
OpType(o, n) == [operation |-> o, name |-> n]

Node(k, n) ==
    [kind |-> k, name |-> n, fields |-> <<>>, interfaces |-> <<>>,
     types |-> <<>>, ops |-> <<>>, args |-> <<>>, values |-> <<>>,
     directives |-> <<>>]

ObjectDef(n, is, fs) == [Node("ObjectDefinition", n) EXCEPT !.interfaces = is, !.fields = fs]
InterfaceDef(n, fs) == [Node("InterfaceDefinition", n) EXCEPT !.fields = fs]
EnumDef(n, vs, ds) == [Node("EnumDefinition", n) EXCEPT !.values = vs, !.directives = ds]
ScalarDef(n) == Node("ScalarDefinition", n)
InputDef(n, fs) == [Node("InputObjectDefinition", n) EXCEPT !.fields = fs]
UnionDef(n, ms) == [Node("UnionDefinition", n) EXCEPT !.types = ms]
ExtendDef(n, is, fs) == [Node("TypeExtensionDefinition", n) EXCEPT !.interfaces = is, !.fields = fs]
DirectiveDef(n, as) == [Node("DirectiveDefinition", n) EXCEPT !.args = as]
SchemaDef(os) == [Node("SchemaDefinition", "") EXCEPT !.ops = os]
\* an executable definition (operation, fragment): no case of the classifier
OperationDef == Node("OperationDefinition", "")
NilNode == Node("nil", "")

TypeDefKinds ==
    {"ObjectDefinition", "InterfaceDefinition", "EnumDefinition",
     "ScalarDefinition", "InputObjectDefinition"}

----------------------------------------------------------------------------
\* Type values and results

NilType == [origin |-> -1, kind |-> "nil", name |-> "", wrap |-> <<>>]
StdType(k, n) == [origin |-> 0, kind |-> k, name |-> n, wrap |-> <<>>]
NewType(j, k, n) == [origin |-> j, kind |-> k, name |-> n, wrap |-> <<>>]
NewList(t) == [t EXCEPT !.wrap = <<"List">> \o @]
NewNonNull(t) == [t EXCEPT !.wrap = <<"NonNull">> \o @]
GetNamed(t) == [t EXCEPT !.wrap = <<>>]

\* An empty Go map.
EmptyMap == [x \in {} |-> x]

NoErr == [code |-> "none", name |-> ""]
Error(c, n) == [code |-> c, name |-> n]
Ok(v) == [ok |-> TRUE, val |-> v, err |-> NoErr]
Fail(e) == [ok |-> FALSE, val |-> NilType, err |-> e]

\* The Go dynamic type of a named type value: every constructor returns a pointer.
DynType(t) == IF t.wrap = <<>> THEN <<"*", t.kind>> ELSE <<"*", Head(t.wrap)>>

\* The introspection types and the specified scalars, by name.
StandardTypes ==
    [n \in {"String", "Int", "Float", "Boolean", "ID"} |-> StdType("Scalar", n)]
    @@ [n \in {"__Schema", "__Directive", "__Type", "__Field", "__InputValue",
               "__EnumValue"} |-> StdType("Object", n)]
    @@ [n \in {"__TypeKind", "__DirectiveLocation"} |-> StdType("Enum", n)]

\* Output: usable as a field's result; Input: usable as an argument or input field.
IsOutput(t) == t.kind \in {"Scalar", "Object", "Interface", "Union", "Enum"}
IsInput(t) == t.kind \in {"Scalar", "Enum", "InputObject"}

----------------------------------------------------------------------------
\* Name and wrapped-type resolution

getNamedType(std, tm, name) ==
    IF name \in DOMAIN std THEN Ok(GetNamed(std[name]))
    ELSE IF name \in DOMAIN tm THEN Ok(GetNamed(tm[name]))
    ELSE Fail(Error("UnknownType", name))

\* getWrappedType wrapping the named type once, whatever the nesting.
getWrappedType_OneWrapper(std, tm, t) ==
    LET named == getNamedType(std, tm, t.name)
    IN IF t.wrap = <<>> \/ ~named.ok THEN named
       ELSE IF Head(t.wrap) = "List" THEN Ok(NewList(named.val))
       ELSE Ok(NewNonNull(named.val))

RECURSIVE getWrappedType(_, _, _)
getWrappedType(std, tm, t) ==
    IF t.wrap = <<>> THEN getNamedType(std, tm, t.name)
    ELSE LET wrapped == getWrappedType(std, tm, [t EXCEPT !.wrap = Tail(@)])
         IN IF ~wrapped.ok THEN Fail(wrapped.err)
            ELSE IF Head(t.wrap) = "List" THEN Ok(NewList(wrapped.val))
            ELSE IF Head(t.wrap) = "NonNull" THEN Ok(NewNonNull(wrapped.val))
            ELSE Fail(Error("MalformedTypeReference", t.name))

\* buildArgumentMap returning an error for an argument that is no input type.
RECURSIVE buildArgumentMap_CastFails(_, _, _, _)
buildArgumentMap_CastFails(std, tm, args, argMap) ==
    IF args = <<>> THEN Ok(argMap)
    ELSE LET arg == Head(args)
             argType == getWrappedType(std, tm, arg.type)
         IN IF ~argType.ok THEN Fail(argType.err)
            ELSE IF IsInput(argType.val)
                 THEN buildArgumentMap_CastFails(std, tm, Tail(args),
                          (arg.name :> argType.val) @@ argMap)
                 ELSE Fail(Error("CastInputFailed", arg.name))

\* buildArgumentMap: a Go map from argument name to its resolved input type.
RECURSIVE buildArgumentMap(_, _, _, _)
buildArgumentMap(std, tm, args, argMap) ==
    IF args = <<>> THEN Ok(argMap)
    ELSE LET arg == Head(args)
             argType == getWrappedType(std, tm, arg.type)
         IN IF ~argType.ok THEN Fail(argType.err)
            ELSE IF IsInput(argType.val)
                 THEN buildArgumentMap(std, tm, Tail(args),
                          (arg.name :> argType.val) @@ argMap)
                 ELSE buildArgumentMap(std, tm, Tail(args), argMap)

\* buildFieldMap: a Go map from field name to [type, args]; a later entry of the
\* same name overwrites the earlier one.
RECURSIVE buildFieldMap(_, _, _, _)
buildFieldMap(std, tm, fieldDefs, fields) ==
    IF fieldDefs = <<>> THEN Ok(fields)
    ELSE LET f == Head(fieldDefs)
             wrapped == getWrappedType(std, tm, f.type)
             argMap == buildArgumentMap(std, tm, f.args, EmptyMap)
         IN IF ~wrapped.ok THEN Fail(wrapped.err)
            ELSE IF ~argMap.ok THEN Fail(argMap.err)
            ELSE IF ~IsOutput(wrapped.val)
                 THEN Fail(Error("CastOutputFailed", f.name))
            ELSE buildFieldMap(std, tm, Tail(fieldDefs),
                     (f.name :> [type |-> wrapped.val, args |-> argMap.val]) @@ fields)
----------------------------------------------------------------------------
\* Type construction

\* c.typeExtensionsMap[name]: a missing key reads as an empty slice.
ExtensionsOf(ext, name) == IF name \in DOMAIN ext THEN ext[name] ELSE <<>>

RECURSIVE ExtensionFields(_)
ExtensionFields(ens) ==
    IF ens = <<>> THEN <<>> ELSE Head(ens).fields \o ExtensionFields(Tail(ens))

\* buildFieldsThunk: the field definitions the returned closure captures.
buildFieldsThunk_NoExtensions(ext, node) ==
    IF node.kind \in {"ObjectDefinition", "InterfaceDefinition"}
    THEN Ok(node.fields)
    ELSE Fail(Error("UnsupportedNode", node.name))

buildFieldsThunk(ext, node) ==
    IF node.kind \in {"ObjectDefinition", "InterfaceDefinition"}
    THEN Ok(node.fields \o ExtensionFields(ExtensionsOf(ext, node.name)))
    ELSE Fail(Error("UnsupportedNode", node.name))

\* def.(DefinitionWithDirectives): the definitions handed in are pointers to AST
\* nodes, whose dynamic type is never the struct DefinitionWithDirectives.
IsDefinitionWithDirectives(def) == def.kind = "DefinitionWithDirectives"

getDeprecationReason(def) ==
    IF IsDefinitionWithDirectives(def)
       /\ \E i \in 1..Len(def.directives) : def.directives[i].name = "deprecated"
    THEN LET i == CHOOSE k \in 1..Len(def.directives) :
                     /\ def.directives[k].name = "deprecated"
                     /\ \A m \in 1..(k - 1) : def.directives[m].name # "deprecated"
         IN def.directives[i].reason
    ELSE ""

\* The member loop of the union case of buildType.
RECURSIVE buildUnionTypes(_, _, _, _)
buildUnionTypes(std, tm, members, types) ==
    IF members = <<>> THEN Ok(types)
    ELSE LET ttype == getNamedType(std, tm, Head(members))
         IN IF ~ttype.ok THEN Fail(ttype.err)
            ELSE IF DynType(ttype.val) = <<"*", "Object">>
                 THEN buildUnionTypes(std, tm, Tail(members), Append(types, ttype.val))
                 ELSE Fail(Error("UnionMemberNotObject", Head(members)))

\* What buildType allocates: the type, and what its thunks and config hold.
Cell(t, node, fds, ms, vs) ==
    [type |-> t, node |-> node, fieldDefs |-> fds, members |-> ms, values |-> vs]
NilCell == Cell(NilType, NilNode, <<>>, <<>>, EmptyMap)

\* buildType resolving the fields of an object or interface while it constructs it.
buildType_EagerFields(std, tm, ext, node, j) ==
    CASE node.kind \in {"ObjectDefinition", "InterfaceDefinition"} ->
            LET fieldsThunk == buildFieldsThunk(ext, node)
                k == IF node.kind = "ObjectDefinition" THEN "Object" ELSE "Interface"
                fieldMap == buildFieldMap(std, tm, fieldsThunk.val, EmptyMap)
            IN IF ~fieldsThunk.ok THEN Fail(fieldsThunk.err)
               ELSE IF ~fieldMap.ok THEN Fail(fieldMap.err)
               ELSE Ok(Cell(NewType(j, k, node.name), node, fieldsThunk.val, <<>>, EmptyMap))
      [] node.kind = "EnumDefinition" ->
            Ok(Cell(NewType(j, "Enum", node.name), node, <<>>, <<>>, EmptyMap))
      [] node.kind = "UnionDefinition" ->
            LET types == buildUnionTypes(std, tm, node.types, <<>>)
            IN IF ~types.ok THEN Fail(types.err)
               ELSE Ok(Cell(NewType(j, "Union", node.name), node, <<>>, types.val, EmptyMap))
      [] node.kind = "ScalarDefinition" ->
            Ok(Cell(NewType(j, "Scalar", node.name), node, <<>>, <<>>, EmptyMap))
      [] node.kind = "InputObjectDefinition" ->
            Ok(Cell(NewType(j, "InputObject", node.name), node, <<>>, <<>>, EmptyMap))
      [] OTHER -> Fail(Error("UnsupportedDefinition", node.name))

buildType(std, tm, ext, node, j) ==
    CASE node.kind \in {"ObjectDefinition", "InterfaceDefinition"} ->
            LET fieldsThunk == buildFieldsThunk(ext, node)
                k == IF node.kind = "ObjectDefinition" THEN "Object" ELSE "Interface"
            IN IF ~fieldsThunk.ok THEN Fail(fieldsThunk.err)
               ELSE Ok(Cell(NewType(j, k, node.name), node, fieldsThunk.val, <<>>, EmptyMap))
      [] node.kind = "EnumDefinition" ->
            Ok(Cell(NewType(j, "Enum", node.name), node, <<>>, <<>>,
                    [v \in {node.values[i] : i \in 1..Len(node.values)} |->
                        getDeprecationReason(node)]))
      [] node.kind = "UnionDefinition" ->
            LET types == buildUnionTypes(std, tm, node.types, <<>>)
            IN IF ~types.ok THEN Fail(types.err)
               ELSE Ok(Cell(NewType(j, "Union", node.name), node, <<>>, types.val, EmptyMap))
      [] node.kind = "ScalarDefinition" ->
            Ok(Cell(NewType(j, "Scalar", node.name), node, <<>>, <<>>, EmptyMap))
      [] node.kind = "InputObjectDefinition" ->
            Ok(Cell(NewType(j, "InputObject", node.name), node, <<>>, <<>>, EmptyMap))
      [] OTHER -> Fail(Error("UnsupportedDefinition", node.name))

\* One iteration of the conversion loop: the registry and the heap after it.
Converted(ok, tm, cell, e) == [ok |-> ok, typeMap |-> tm, cell |-> cell, err |-> e]

ConvertTypeNode_OverrideStandard(std, tm, ext, node, j) ==
    LET builtType == buildType(std, tm, ext, node, j)
    IN IF ~builtType.ok THEN Converted(FALSE, tm, NilCell, builtType.err)
       ELSE Converted(TRUE, (node.name :> builtType.val.type) @@ tm,
                      builtType.val, NoErr)

ConvertTypeNode(std, tm, ext, node, j) ==
    IF node.name \in DOMAIN std
    THEN Converted(TRUE, (node.name :> std[node.name]) @@ tm, NilCell, NoErr)
    ELSE LET builtType == buildType(std, tm, ext, node, j)
         IN IF ~builtType.ok THEN Converted(FALSE, tm, NilCell, builtType.err)
            ELSE Converted(TRUE, (node.name :> builtType.val.type) @@ tm,
                           builtType.val, NoErr)

----------------------------------------------------------------------------
\* Thunks

\* The closure buildFieldsThunk returns: a failure of buildFieldMap panics.
FieldsThunk(std, tm, fieldDefs) == buildFieldMap(std, tm, fieldDefs, EmptyMap)

\* The closure buildInputObjectFieldsThunk returns: it has no failure.
RECURSIVE InputObjectFieldsThunk(_, _, _, _)
InputObjectFieldsThunk(std, tm, fieldDefs, inputFieldMap) ==
    IF fieldDefs = <<>> THEN Ok(inputFieldMap)
    ELSE LET field == Head(fieldDefs)
             fieldType == getWrappedType(std, tm, field.type)
         IN IF fieldType.ok /\ IsInput(fieldType.val)
            THEN InputObjectFieldsThunk(std, tm, Tail(fieldDefs),
                     (field.name :> [type |-> fieldType.val, args |-> EmptyMap])
                         @@ inputFieldMap)
            ELSE InputObjectFieldsThunk(std, tm, Tail(fieldDefs), inputFieldMap)

\* &convertedInterface: the address of a local copy of the value.
AddressOfCopy(t) == [t EXCEPT !.origin = -2]

\* The first loop of the interfaces thunk: the interfaces of the definition,
\* kept when the value's dynamic type is Interface (not *Interface).
RECURSIVE OwnInterfaces(_, _, _, _)
OwnInterfaces(std, tm, names, interfaces) ==
    IF names = <<>> THEN Ok(interfaces)
    ELSE LET namedInterface == getNamedType(std, tm, Head(names))
         IN IF ~namedInterface.ok THEN Fail(namedInterface.err)
            ELSE IF DynType(namedInterface.val) = <<"", "Interface">>
                 THEN OwnInterfaces(std, tm, Tail(names),
                          Append(interfaces, AddressOfCopy(namedInterface.val)))
                 ELSE OwnInterfaces(std, tm, Tail(names), interfaces)

\* The second loop: the interfaces of the extensions, kept when *Interface.
RECURSIVE ExtensionInterfaces(_, _, _, _)
ExtensionInterfaces(std, tm, names, interfaces) ==
    IF names = <<>> THEN Ok(interfaces)
    ELSE LET namedInterface == getNamedType(std, tm, Head(names))
         IN IF ~namedInterface.ok THEN Fail(namedInterface.err)
            ELSE IF DynType(namedInterface.val) = <<"*", "Interface">>
                 THEN ExtensionInterfaces(std, tm, Tail(names),
                          Append(interfaces, namedInterface.val))
                 ELSE ExtensionInterfaces(std, tm, Tail(names), interfaces)

RECURSIVE ExtensionInterfaceNames(_)
ExtensionInterfaceNames(ens) ==
    IF ens = <<>> THEN <<>>
    ELSE Head(ens).interfaces \o ExtensionInterfaceNames(Tail(ens))

\* The closure buildInterfacesThunk returns.
InterfacesThunk(std, tm, ext, node) ==
    LET own == OwnInterfaces(std, tm, node.interfaces, <<>>)
    IN IF ~own.ok THEN Fail(own.err)
       ELSE ExtensionInterfaces(std, tm,
                ExtensionInterfaceNames(ExtensionsOf(ext, node.name)), own.val)
----------------------------------------------------------------------------
\* Directives

\* A directive value: origin 0 is a built-in, origin j > 0 the one buildDirective
\* constructs for directiveDefs[j].
BuiltinDirective(n) == [origin |-> 0, name |-> n, args |-> EmptyMap]

\* The package's SpecifiedDirectives, and SpecifiedByDirective.
SpecifiedDirectives ==
    <<BuiltinDirective("skip"), BuiltinDirective("include"), BuiltinDirective("deprecated")>>
SpecifiedByDirective == BuiltinDirective("specifiedBy")

buildDirective(std, tm, directiveDef, j) ==
    LET argMap == buildArgumentMap(std, tm, directiveDef.args, EmptyMap)
    IN IF ~argMap.ok THEN Fail(argMap.err)
       ELSE Ok([origin |-> j, name |-> directiveDef.name, args |-> argMap.val])

\* The loop over directiveDefs: the list built, or the first failure.
RECURSIVE buildDirectives(_, _, _, _, _)
buildDirectives(std, tm, directiveDefs, j, directives) ==
    IF j > Len(directiveDefs) THEN Ok(directives)
    ELSE LET directiveType == buildDirective(std, tm, directiveDefs[j], j)
         IN IF ~directiveType.ok THEN Fail(directiveType.err)
            ELSE buildDirectives(std, tm, directiveDefs, j + 1,
                     Append(directives, directiveType.val))

\* The loop over the specified directives: each one not declared by name is appended.
RECURSIVE addSpecifiedDirectives(_, _)
addSpecifiedDirectives(specified, directives) ==
    IF specified = <<>> THEN directives
    ELSE LET hasDirective ==
                 \E i \in 1..Len(directives) : directives[i].name = Head(specified).name
         IN addSpecifiedDirectives(Tail(specified),
                IF hasDirective THEN directives ELSE Append(directives, Head(specified)))

----------------------------------------------------------------------------
\* Root operation types

SchemaOperations(q, m, s) == [Query |-> q, Mutation |-> m, Subscription |-> s]

RECURSIVE getSchemaOperationTypes(_, _, _, _)
getSchemaOperationTypes(std, tm, ops, schemaOperations) ==
    IF ops = <<>> THEN Ok(schemaOperations)
    ELSE LET operationType == Head(ops)
             ttype == getNamedType(std, tm, operationType.name)
         IN IF ~ttype.ok THEN Fail(ttype.err)
            ELSE getSchemaOperationTypes(std, tm, Tail(ops),
                   IF DynType(ttype.val) # <<"*", "Object">> THEN schemaOperations
                   ELSE IF operationType.operation = "query"
                        THEN [schemaOperations EXCEPT !.Query = ttype.val]
                   ELSE IF operationType.operation = "mutation"
                        THEN [schemaOperations EXCEPT !.Mutation = ttype.val]
                   ELSE IF operationType.operation = "subscription"
                        THEN [schemaOperations EXCEPT !.Subscription = ttype.val]
                   ELSE schemaOperations)

\* The root the loop over c.typeMap picks for a conventional name.
ConventionalRoot(tm, name) ==
    IF name \in DOMAIN tm /\ DynType(tm[name]) = <<"*", "Object">>
    THEN tm[name] ELSE NilType

----------------------------------------------------------------------------
\* The state

VARIABLES
    pc,                 \* where the build is
    documentNode,       \* the argument of BuildAstSchema
    stdTypeMap,         \* builder.stdTypeMap
    typeMap,            \* builder.typeMap
    typeExtensionsMap,  \* builder.typeExtensionsMap
    typeDefs, directiveDefs, unionDefs, schemaDef,  \* buildSchemaConfig's buckets
    idx,                \* the index of the running loop
    schemaConfig,       \* buildSchemaConfig's local schemaConfig
    ret,                \* what buildSchemaConfig (or the document check) returned
    heap,               \* the types constructed so far, by origin
    forcedFields,       \* the results of the field thunks forced, by origin
    forcedInterfaces,   \* the results of the interface thunks forced, by origin
    panic,              \* the value a thunk panicked with
    built               \* the builds that returned earlier in the process

vars ==
    <<pc, documentNode, stdTypeMap, typeMap, typeExtensionsMap, typeDefs,
      directiveDefs, unionDefs, schemaDef, idx, schemaConfig, ret, heap,
      forcedFields, forcedInterfaces, panic, built>>

\* The caller's side: the document handed in, and what earlier builds returned.
caller == <<documentNode, built>>

builder == <<stdTypeMap, typeMap, typeExtensionsMap>>
buckets == <<typeDefs, directiveDefs, unionDefs, schemaDef>>
thunks == <<forcedFields, forcedInterfaces, panic>>

Config(q, m, s, ts, ds) ==
    [nil |-> FALSE, Query |-> q, Mutation |-> m, Subscription |-> s,
     Types |-> ts, Directives |-> ds]
\* SchemaConfig{}
EmptyConfig == Config(NilType, NilType, NilType, {}, <<>>)
\* a nil *SchemaConfig
NilConfig == [EmptyConfig EXCEPT !.nil = TRUE]

Document(defs) == [Kind |-> "Document", Definitions |-> defs]
\* BuildAstSchema(nil) and BuildAstSchema(&ast.Document{})
NilDocument == [Kind |-> "nil", Definitions |-> <<>>]
ZeroDocument == [Kind |-> "", Definitions |-> <<>>]

SeqsUpTo(S, n) == UNION {[1..m -> S] : m \in 0..n}

\* The state at the call of BuildAstSchema on one of the documents given.
InitState(documents) ==
    /\ documentNode \in documents
    /\ pc = "start"
    /\ stdTypeMap = EmptyMap
    /\ typeMap = EmptyMap
    /\ typeExtensionsMap = EmptyMap
    /\ typeDefs = <<>>
    /\ directiveDefs = <<>>
    /\ unionDefs = <<>>
    /\ schemaDef = NilNode
    /\ idx = 0
    /\ schemaConfig = EmptyConfig
    /\ ret = [config |-> NilConfig, err |-> NoErr]
    /\ heap = EmptyMap
    /\ forcedFields = EmptyMap
    /\ forcedInterfaces = EmptyMap
    /\ panic = NoErr
    /\ built = <<>>

InitWith(pool, n) ==
    InitState({Document(defs) : defs \in SeqsUpTo(pool, n)} \cup {NilDocument, ZeroDocument})

----------------------------------------------------------------------------
\* The build

\* BuildAstSchema with the registry and the extension map kept in package-level
\* variables instead of a new builder per call.
BuildAstSchema_SharedRegistry ==
    /\ pc = "start"
    /\ IF documentNode.Kind # "Document"
       THEN /\ pc' = "done"
            /\ ret' = [config |-> NilConfig, err |-> Error("InvalidDocument", "")]
            /\ UNCHANGED <<builder, idx>>
       ELSE /\ stdTypeMap' = StandardTypes
            /\ UNCHANGED <<typeMap, typeExtensionsMap>>
            /\ pc' = "classify"
            /\ idx' = 1
            /\ ret' = ret
    /\ UNCHANGED <<caller, buckets, schemaConfig, heap, thunks>>

\* BuildAstSchema refusing only the nil document.
BuildAstSchema_NilCheckOnly ==
    /\ pc = "start"
    /\ IF documentNode.Kind = "nil"
       THEN /\ pc' = "done"
            /\ ret' = [config |-> NilConfig, err |-> Error("InvalidDocument", "")]
            /\ UNCHANGED <<builder, idx>>
       ELSE /\ stdTypeMap' = StandardTypes
            /\ typeMap' = EmptyMap
            /\ typeExtensionsMap' = EmptyMap
            /\ pc' = "classify"
            /\ idx' = 1
            /\ ret' = ret
    /\ UNCHANGED <<caller, buckets, schemaConfig, heap, thunks>>

\* BuildAstSchema up to the call of buildSchemaConfig, and the latter's first lines.
BuildAstSchema ==
    /\ pc = "start"
    /\ IF documentNode.Kind # "Document"
       THEN /\ pc' = "done"
            /\ ret' = [config |-> NilConfig, err |-> Error("InvalidDocument", "")]
            /\ UNCHANGED <<builder, idx>>
       ELSE /\ stdTypeMap' = StandardTypes
            /\ typeMap' = EmptyMap
            /\ typeExtensionsMap' = EmptyMap
            /\ pc' = "classify"
            /\ idx' = 1
            /\ ret' = ret
    /\ UNCHANGED <<caller, buckets, schemaConfig, heap, thunks>>

\* One iteration of the loop over documentAST.Definitions: the buckets after it.
Buckets(sd, ext, dd, td, ud) ==
    [schemaDef |-> sd, typeExtensionsMap |-> ext, directiveDefs |-> dd,
     typeDefs |-> td, unionDefs |-> ud]

Classify_UnionsInPlace(b, node) ==
    Buckets(
        IF node.kind = "SchemaDefinition" THEN node ELSE b.schemaDef,
        IF node.kind = "TypeExtensionDefinition"
        THEN (node.name :> Append(ExtensionsOf(b.typeExtensionsMap, node.name), node))
                 @@ b.typeExtensionsMap
        ELSE b.typeExtensionsMap,
        IF node.kind = "DirectiveDefinition"
        THEN Append(b.directiveDefs, node) ELSE b.directiveDefs,
        IF node.kind \in TypeDefKinds \cup {"UnionDefinition"}
        THEN Append(b.typeDefs, node) ELSE b.typeDefs,
        b.unionDefs)

Classify(b, node) ==
    Buckets(
        IF node.kind = "SchemaDefinition" THEN node ELSE b.schemaDef,
        IF node.kind = "TypeExtensionDefinition"
        THEN (node.name :> Append(ExtensionsOf(b.typeExtensionsMap, node.name), node))
                 @@ b.typeExtensionsMap
        ELSE b.typeExtensionsMap,
        IF node.kind = "DirectiveDefinition"
        THEN Append(b.directiveDefs, node) ELSE b.directiveDefs,
        IF node.kind \in TypeDefKinds THEN Append(b.typeDefs, node) ELSE b.typeDefs,
        IF node.kind = "UnionDefinition" THEN Append(b.unionDefs, node) ELSE b.unionDefs)

ClassifyDefinition ==
    /\ pc = "classify"
    /\ idx <= Len(documentNode.Definitions)
    /\ LET b == Classify(Buckets(schemaDef, typeExtensionsMap, directiveDefs,
                                 typeDefs, unionDefs),
                         documentNode.Definitions[idx])
       IN /\ schemaDef' = b.schemaDef
          /\ typeExtensionsMap' = b.typeExtensionsMap
          /\ directiveDefs' = b.directiveDefs
          /\ typeDefs' = b.typeDefs
          /\ unionDefs' = b.unionDefs
    /\ idx' = idx + 1
    /\ UNCHANGED <<pc, caller, stdTypeMap, typeMap, schemaConfig, ret, heap, thunks>>

\* The test for nothing to build made on the document's length instead.
NothingToBuild_NoDefinitions == Len(documentNode.Definitions) = 0

\* The test for nothing to build: the unions are not counted.
NothingToBuild ==
    /\ Len(typeDefs) = 0
    /\ DOMAIN typeExtensionsMap = {}
    /\ Len(directiveDefs) = 0
    /\ schemaDef = NilNode

\* After the classification: the early return, or the unions appended to typeDefs.
AppendUnions ==
    /\ pc = "classify"
    /\ idx > Len(documentNode.Definitions)
    /\ IF NothingToBuild
       THEN /\ pc' = "done"
            /\ ret' = [config |-> schemaConfig, err |-> NoErr]
            /\ UNCHANGED <<typeDefs, idx>>
       ELSE /\ typeDefs' = typeDefs \o unionDefs
            /\ pc' = "convert"
            /\ idx' = 1
            /\ ret' = ret
    /\ UNCHANGED <<caller, builder, directiveDefs, unionDefs, schemaDef,
                   schemaConfig, heap, thunks>>

\* One iteration of the loop that converts typeDefs.
ConvertTypeDef ==
    /\ pc = "convert"
    /\ idx <= Len(typeDefs)
    /\ LET c == ConvertTypeNode(stdTypeMap, typeMap, typeExtensionsMap, typeDefs[idx], idx)
       IN IF c.ok
          THEN /\ typeMap' = c.typeMap
               /\ heap' = IF c.cell = NilCell THEN heap ELSE (idx :> c.cell) @@ heap
               /\ idx' = idx + 1
               /\ UNCHANGED <<pc, ret>>
          ELSE /\ pc' = "done"
               /\ ret' = [config |-> NilConfig, err |-> c.err]
               /\ UNCHANGED <<typeMap, heap, idx>>
    /\ UNCHANGED <<caller, stdTypeMap, typeExtensionsMap, buckets, schemaConfig, thunks>>

\* The loop over c.typeMap: the type list (in Go's map order, kept as a set) and
\* the conventional roots.
CollectTypes ==
    /\ pc = "convert"
    /\ idx > Len(typeDefs)
    /\ schemaConfig' =
           [schemaConfig EXCEPT
               !.Types = {typeMap[n] : n \in DOMAIN typeMap},
               !.Query = ConventionalRoot(typeMap, "Query"),
               !.Mutation = ConventionalRoot(typeMap, "Mutation")]
    /\ pc' = "schema"
    /\ UNCHANGED <<caller, builder, buckets, idx, ret, heap, thunks>>

\* The roots after the operation types of the schema definition replace them.
ReplaceRoots_KeepConventional(config, o) ==
    [config EXCEPT
        !.Query = IF o.Query # NilType /\ @ = NilType THEN o.Query ELSE @,
        !.Mutation = IF o.Mutation # NilType /\ @ = NilType THEN o.Mutation ELSE @,
        !.Subscription = IF o.Subscription # NilType /\ @ = NilType THEN o.Subscription ELSE @]

ReplaceRoots(config, o) ==
    [config EXCEPT
        !.Query = IF o.Query # NilType THEN o.Query ELSE @,
        !.Mutation = IF o.Mutation # NilType THEN o.Mutation ELSE @,
        !.Subscription = IF o.Subscription # NilType THEN o.Subscription ELSE @]

\* The top-level schema definition, when there is one.
ApplySchemaDef ==
    /\ pc = "schema"
    /\ IF schemaDef = NilNode
       THEN /\ pc' = "directives"
            /\ UNCHANGED <<schemaConfig, ret>>
       ELSE LET o == getSchemaOperationTypes(stdTypeMap, typeMap, schemaDef.ops,
                         SchemaOperations(NilType, NilType, NilType))
            IN IF ~o.ok
               THEN /\ pc' = "done"
                    /\ ret' = [config |-> NilConfig, err |-> o.err]
                    /\ UNCHANGED schemaConfig
               ELSE /\ schemaConfig' = ReplaceRoots(schemaConfig, o.val)
                    /\ pc' = "directives"
                    /\ ret' = ret
    /\ UNCHANGED <<caller, builder, buckets, idx, heap, thunks>>

\* The directive loop returning the config built so far along with the error.
BuildDirectives_ReturnsPartial ==
    /\ pc = "directives"
    /\ LET d == buildDirectives(stdTypeMap, typeMap, directiveDefs, 1, <<>>)
       IN IF ~d.ok
          THEN /\ pc' = "done"
               /\ ret' = [config |-> schemaConfig, err |-> d.err]
               /\ UNCHANGED schemaConfig
          ELSE /\ schemaConfig' = [schemaConfig EXCEPT !.Directives = d.val]
               /\ pc' = "specified"
               /\ ret' = ret
    /\ UNCHANGED <<caller, builder, buckets, idx, heap, thunks>>

\* The directive definitions converted.
BuildDirectives ==
    /\ pc = "directives"
    /\ LET d == buildDirectives(stdTypeMap, typeMap, directiveDefs, 1, <<>>)
       IN IF ~d.ok
          THEN /\ pc' = "done"
               /\ ret' = [config |-> NilConfig, err |-> d.err]
               /\ UNCHANGED schemaConfig
          ELSE /\ schemaConfig' = [schemaConfig EXCEPT !.Directives = d.val]
               /\ pc' = "specified"
               /\ ret' = ret
    /\ UNCHANGED <<caller, builder, buckets, idx, heap, thunks>>

\* The specified directives added, and the return.
AddSpecifiedDirectives ==
    /\ pc = "specified"
    /\ schemaConfig' =
           [schemaConfig EXCEPT !.Directives =
               addSpecifiedDirectives(Append(SpecifiedDirectives, SpecifiedByDirective), @)]
    /\ ret' = [config |-> schemaConfig', err |-> NoErr]
    /\ pc' = "done"
    /\ UNCHANGED <<caller, builder, buckets, idx, heap, thunks>>

----------------------------------------------------------------------------
\* Forcing the thunks of the returned types

\* The constructed types the returned config hands out.
Returned(kinds) ==
    {j \in DOMAIN heap : heap[j].type \in ret.config.Types /\ heap[j].type.kind \in kinds}

ForceFields(j) ==
    /\ pc = "done"
    /\ j \in Returned({"Object", "Interface", "InputObject"})
    /\ j \notin DOMAIN forcedFields
    /\ LET r == IF heap[j].type.kind = "InputObject"
                THEN InputObjectFieldsThunk(stdTypeMap, typeMap, heap[j].node.fields, EmptyMap)
                ELSE FieldsThunk(stdTypeMap, typeMap, heap[j].fieldDefs)
       IN IF r.ok
          THEN forcedFields' = (j :> r.val) @@ forcedFields /\ UNCHANGED <<pc, panic>>
          ELSE pc' = "panicked" /\ panic' = r.err /\ UNCHANGED forcedFields
    /\ UNCHANGED <<caller, builder, buckets, idx, schemaConfig, ret, heap,
                   forcedInterfaces>>

ForceInterfaces(j) ==
    /\ pc = "done"
    /\ j \in Returned({"Object"})
    /\ j \notin DOMAIN forcedInterfaces
    /\ LET r == InterfacesThunk(stdTypeMap, typeMap, typeExtensionsMap, heap[j].node)
       IN IF r.ok
          THEN forcedInterfaces' = (j :> r.val) @@ forcedInterfaces /\ UNCHANGED <<pc, panic>>
          ELSE pc' = "panicked" /\ panic' = r.err /\ UNCHANGED forcedInterfaces
    /\ UNCHANGED <<caller, builder, buckets, idx, schemaConfig, ret, heap,
                   forcedFields>>

----------------------------------------------------------------------------
\* Several builds in one process

\* What a caller can compare of a returned config: the names of the roots, of
\* the types and of the directives, and the field names of each type (the
\* thunks forced, as NewSchema does).
ForcedFieldNames(j) ==
    LET r == IF heap[j].type.kind = "InputObject"
             THEN InputObjectFieldsThunk(stdTypeMap, typeMap, heap[j].node.fields, EmptyMap)
             ELSE FieldsThunk(stdTypeMap, typeMap, heap[j].fieldDefs)
    IN IF r.ok THEN [panic |-> NoErr, names |-> DOMAIN r.val]
       ELSE [panic |-> r.err, names |-> {}]
Summary ==
    [err |-> ret.err,
     nil |-> ret.config.nil,
     roots |-> <<ret.config.Query.name, ret.config.Mutation.name,
                 ret.config.Subscription.name>>,
     types |-> {t.name : t \in ret.config.Types},
     fields |-> {<<heap[j].type.name, ForcedFieldNames(j)>> :
                    j \in Returned({"Object", "Interface", "InputObject"})},
     directives |-> [i \in 1..Len(ret.config.Directives) |->
                        ret.config.Directives[i].name]]

\* BuildAstSchema has returned and the caller calls it again, on document d:
\* the locals of the returned call are gone, the maps of its builder are
\* garbage until the new call makes its own.
CallAgain(d, most) ==
    /\ pc = "done"
    /\ Len(built) + 1 < most
    /\ built' = Append(built, [document |-> documentNode, summary |-> Summary])
    /\ documentNode' = d
    /\ pc' = "start"
    /\ typeDefs' = <<>> /\ directiveDefs' = <<>> /\ unionDefs' = <<>>
    /\ schemaDef' = NilNode
    /\ idx' = 0
    /\ schemaConfig' = EmptyConfig
    /\ ret' = [config |-> NilConfig, err |-> NoErr]
    /\ heap' = EmptyMap
    /\ forcedFields' = EmptyMap /\ forcedInterfaces' = EmptyMap /\ panic' = NoErr
    /\ UNCHANGED builder

Next ==
    \/ BuildAstSchema
    \/ ClassifyDefinition
    \/ AppendUnions
    \/ ConvertTypeDef
    \/ CollectTypes
    \/ ApplySchemaDef
    \/ BuildDirectives
    \/ AddSpecifiedDirectives
    \/ \E j \in DOMAIN heap : ForceFields(j)
    \/ \E j \in DOMAIN heap : ForceInterfaces(j)

----------------------------------------------------------------------------
\* Documents

String == NamedRef("String")
ID == NamedRef("ID")

\* Definitions about references between types, standard names, unions,
\* extensions and thunks.
TypePool ==
    { ObjectDef("A", <<"I">>, <<Field("b", NamedRef("B"), <<>>), Field("s", String, <<>>)>>),
      ObjectDef("B", <<>>, <<Field("a", ListRef(NamedRef("A")), <<>>),
                             Field("b", NonNullRef(NamedRef("B")), <<>>)>>),
      InterfaceDef("I", <<Field("s", String, <<>>)>>),
      UnionDef("U", <<"A", "B">>),
      UnionDef("V", <<"ID">>),
      ScalarDef("ID"),
      ScalarDef("__Schema"),
      ObjectDef("X", <<>>, <<Field("g", String, <<Arg("n", ID)>>)>>),
      InterfaceDef("X", <<Field("h", NamedRef("__Schema"), <<>>)>>),
      ExtendDef("X", <<"I">>, <<Field("f", NonNullRef(ID), <<>>)>>),
      ExtendDef("X", <<"X">>, <<Field("g", ListRef(ID), <<>>)>>),
      InputDef("In", <<Field("f", NamedRef("Missing"), <<>>), Field("g", String, <<>>)>>),
      ObjectDef("C", <<"Missing">>, <<Field("x", NamedRef("In"), <<>>)>>) }

\* Definitions about the root operation types.
RootPool ==
    { SchemaDef(<<OpType("query", "A")>>),
      SchemaDef(<<OpType("mutation", "A"), OpType("subscription", "A")>>),
      SchemaDef(<<OpType("query", "Query"), OpType("query", "A")>>),
      SchemaDef(<<OpType("subscription", "E"), OpType("mutation", "Missing")>>),
      ObjectDef("A", <<>>, <<Field("s", String, <<>>)>>),
      ObjectDef("Query", <<>>, <<Field("s", String, <<>>)>>),
      ObjectDef("Mutation", <<>>, <<Field("s", String, <<>>)>>),
      ObjectDef("Subscription", <<>>, <<Field("s", String, <<>>)>>),
      EnumDef("E", <<"V1">>, <<>>) }

\* Definitions about the directive list.
DirectivePool ==
    { DirectiveDef("foo", <<Arg("a", NonNullRef(String)), Arg("o", NamedRef("A"))>>),
      DirectiveDef("bar", <<Arg("x", NamedRef("Missing"))>>),
      DirectiveDef("skip", <<>>),
      DirectiveDef("specifiedBy", <<Arg("url", String)>>),
      ObjectDef("A", <<>>, <<Field("s", String, <<>>)>>),
      UnionDef("U", <<"A">>),
      OperationDef }

\* The wrapper nestings a parsed type reference can have: no NonNull directly
\* inside a NonNull.
WrapSeqs(n) ==
    {w \in UNION {[1..m -> {"List", "NonNull"}] : m \in 0..n} :
        \A i \in 1..(Len(w) - 1) : ~(w[i] = "NonNull" /\ w[i + 1] = "NonNull")}

\* Definitions about wrapped type references: an object whose field refers,
\* under every nesting, to a standard scalar, to the object itself or to nothing.
TypeRefPool ==
    {ObjectDef("A", <<>>, <<Field("f", [wrap |-> w, name |-> n], <<>>)>>) :
        w \in WrapSeqs(MaxWrap), n \in {"String", "A", "Missing"}}

\* Definitions about the failures of the build: unions with an unknown member,
\* with a non-object member and with a member that is a union, schema blocks
\* and directives naming an unknown type.
FailurePool ==
    { UnionDef("U", <<"A", "Missing">>),
      UnionDef("V", <<"I">>),
      UnionDef("W", <<"A", "V">>),
      InterfaceDef("I", <<Field("s", String, <<>>)>>),
      ObjectDef("A", <<"I">>, <<Field("s", String, <<>>)>>),
      SchemaDef(<<OpType("query", "A")>>),
      SchemaDef(<<OpType("query", "Missing")>>),
      DirectiveDef("foo", <<Arg("a", String)>>),
      DirectiveDef("bar", <<Arg("x", NamedRef("Missing"))>>) }

\* Documents a process builds more than once.
BuildDocuments ==
    LET A == ObjectDef("A", <<>>, <<Field("s", String, <<>>)>>)
        ExtendA == ExtendDef("A", <<>>, <<Field("t", NonNullRef(ID), <<>>)>>)
    IN {Document(defs) : defs \in
           { <<>>, <<A>>, <<ExtendA>>, <<A, ExtendA>>,
             <<DirectiveDef("foo", <<Arg("a", String)>>)>>,
             <<UnionDef("U", <<"A">>), A>>,
             <<SchemaDef(<<OpType("query", "A")>>)>> }}

\* Definitions about arguments: of fields and of directives, of input types,
\* of types that are no input types and of unknown types.
ArgumentPool ==
    { ObjectDef("A", <<>>,
          <<Field("f", String, <<Arg("a", NamedRef("A")), Arg("s", NonNullRef(String)),
                                 Arg("l", ListRef(NamedRef("A")))>>)>>),
      ObjectDef("B", <<>>,
          <<Field("f", String, <<Arg("e", ListRef(NonNullRef(NamedRef("E")))),
                                 Arg("i", NamedRef("In"))>>)>>),
      ObjectDef("C", <<>>,
          <<Field("f", String, <<Arg("s", String), Arg("m", NamedRef("Missing")),
                                 Arg("t", ID)>>)>>),
      ObjectDef("D", <<>>,
          <<Field("f", String, <<Arg("u", NamedRef("U")), Arg("n", NonNullRef(NamedRef("I"))),
                                 Arg("s", String)>>)>>),
      EnumDef("E", <<"V1">>, <<>>),
      EnumDef("F", <<"V1", "V2">>, <<[name |-> "foo", reason |-> ""],
                                     [name |-> "deprecated", reason |-> "old"]>>),
      InputDef("In", <<Field("g", String, <<>>)>>),
      InterfaceDef("I", <<Field("s", String, <<>>)>>),
      UnionDef("U", <<"D">>),
      DirectiveDef("foo", <<Arg("o", NamedRef("A")), Arg("s", String)>>),
      DirectiveDef("bar", <<Arg("s", String), Arg("x", NamedRef("Missing"))>>) }

Init == InitWith(TypePool, MaxDefs)
InitArguments == InitWith(ArgumentPool, MaxDefs)
InitBuilds == InitState(BuildDocuments)
InitFailures == InitWith(FailurePool, MaxDefs)
InitTypeRefs == InitWith(TypeRefPool, 1)
\* Documents whose top-level kind is Document or is not, with definitions, and nil.
InitKinds ==
    InitState({[Kind |-> k, Definitions |-> defs] :
                   k \in {"Document", "", "OperationDefinition"},
                   defs \in SeqsUpTo(DirectivePool, MaxDefs - 1)}
              \cup {NilDocument})
InitRoots == InitWith(RootPool, MaxDefs)
InitDirectives == InitWith(DirectivePool, MaxDefs)

Spec == Init /\ [][Next]_vars
SpecRoots == InitRoots /\ [][Next]_vars
SpecDirectives == InitDirectives /\ [][Next]_vars
SpecTypeRefs == InitTypeRefs /\ [][Next]_vars
SpecKinds == InitKinds /\ [][Next]_vars
SpecFailures == InitFailures /\ [][Next]_vars
SpecArguments == InitArguments /\ [][Next]_vars

\* The build, or the caller building another document after it.
NextBuild ==
    \/ Next
    \/ \E d \in BuildDocuments : CallAgain(d, MaxBuilds)
SpecBuilds == InitBuilds /\ [][NextBuild]_vars
----------------------------------------------------------------------------
\* Vocabulary of the properties, read off the document and the final state

Defs == documentNode.Definitions
DefsOf(kinds) == SelectSeq(Defs, LAMBDA d : d.kind \in kinds)

\* The registry entry a name resolves to (NilType when it is in neither tier).
Registered(n) ==
    IF n \in DOMAIN stdTypeMap THEN stdTypeMap[n]
    ELSE IF n \in DOMAIN typeMap THEN typeMap[n]
    ELSE NilType

\* The type an AST reference denotes: the registry entry under its wrappers.
Denoted(t) == [Registered(t.name) EXCEPT !.wrap = t.wrap]

\* buildSchemaConfig returned a config / an error.
Succeeded == pc \in {"done", "panicked"} /\ ~ret.config.nil
Failed == pc = "done" /\ ret.err # NoErr
\* ... an error raised while typeDefs[idx] was converted.
FailedAtTypeDef == Failed /\ idx \in 1..Len(typeDefs)

\* The last definition of a field name in a list of field definitions.
LastField(fds, n) ==
    fds[CHOOSE i \in 1..Len(fds) :
            fds[i].name = n /\ \A k \in (i + 1)..Len(fds) : fds[k].name # n]
FieldNames(fds) == {fds[i].name : i \in 1..Len(fds)}

RECURSIVE Flatten(_)
Flatten(ss) == IF ss = <<>> THEN <<>> ELSE Head(ss) \o Flatten(Tail(ss))

\* The extension fragments of a name, in document order.
Fragments(n) == SelectSeq(Defs, LAMBDA d : d.kind = "TypeExtensionDefinition" /\ d.name = n)
FragmentFields(n) == Flatten([i \in 1..Len(Fragments(n)) |-> Fragments(n)[i].fields])
FragmentInterfaces(n) == Flatten([i \in 1..Len(Fragments(n)) |-> Fragments(n)[i].interfaces])

----------------------------------------------------------------------------
\* C1: object types that reference each other, or themselves, through field
\* types never make the build fail, in any definition order (a build fails only
\* at a union, a schema block or a directive, never at an object or interface
\* definition); forcing a field thunk panics only for a name in neither tier or
\* a type that is no output type; and every forced field's named type is the
\* very registry entry of the referenced name, the object the config hands out.
\* The build and the forcing terminate: every step decreases a natural number.

\* Two object definitions refer to each other (or one to itself) by field types.
RefersTo(d, n) == \E i \in 1..Len(d.fields) : d.fields[i].type.name = n
CyclicDocument ==
    \E i, k \in 1..Len(Defs) :
        /\ Defs[i].kind = "ObjectDefinition" /\ Defs[k].kind = "ObjectDefinition"
        /\ RefersTo(Defs[i], Defs[k].name) /\ RefersTo(Defs[k], Defs[i].name)

\* A measure every step of the build and of the forcing decreases.
Unit == 2 * Len(Defs) + 2
Remaining ==
    CASE pc = "start" -> 6 * Unit
      [] pc = "classify" -> 5 * Unit + (Len(Defs) + 1 - idx)
      [] pc = "convert" -> 4 * Unit + (Len(typeDefs) + 1 - idx)
      [] pc = "schema" -> 3 * Unit
      [] pc = "directives" -> 2 * Unit
      [] pc = "specified" -> Unit
      [] pc = "done" -> 1 + 2 * Cardinality(DOMAIN heap)
                          - Cardinality(DOMAIN forcedFields)
                          - Cardinality(DOMAIN forcedInterfaces)
      [] OTHER -> 0

CyclicTypesResolve ==
    /\ FailedAtTypeDef => typeDefs[idx].kind = "UnionDefinition"
    /\ (CyclicDocument /\ DefsOf({"UnionDefinition", "SchemaDefinition",
                                  "DirectiveDefinition"}) = <<>>
            /\ pc \in {"done", "panicked"})
         => Succeeded /\ ret.err = NoErr
    /\ pc = "panicked" =>
         \/ panic.code = "UnknownType" /\ Registered(panic.name) = NilType
         \/ panic.code = "CastOutputFailed"
    /\ \A j \in DOMAIN forcedFields : \A n \in DOMAIN forcedFields[j] :
         heap[j].type.kind \in {"Object", "Interface"} =>
             LET f == LastField(heap[j].fieldDefs, n)
                 named == GetNamed(forcedFields[j][n].type)
             IN /\ named = Registered(f.type.name)
                /\ named.origin >= 0
                /\ named.origin > 0 =>
                       named \in ret.config.Types /\ named = heap[named.origin].type

\* C1, the property: cyclic references resolve to the registry entries, and
\* every step of the build strictly decreases the work that remains.
C1_CyclicTypesBuild ==
    /\ []CyclicTypesResolve
    /\ [][Remaining >= 0 /\ Remaining' < Remaining]_vars

\* Both types of a two-type cycle built, returned and forced, each field
\* holding the other's registry entry.
C1_Witness ==
    \E j, k \in DOMAIN forcedFields :
        /\ j # k
        /\ heap[j].type.kind = "Object" /\ heap[k].type.kind = "Object"
        /\ \E n \in DOMAIN forcedFields[j] : GetNamed(forcedFields[j][n].type) = heap[k].type
        /\ \E n \in DOMAIN forcedFields[k] : GetNamed(forcedFields[k][n].type) = heap[j].type
        /\ \E n \in DOMAIN forcedFields[k] : GetNamed(forcedFields[k][n].type) = heap[k].type
----------------------------------------------------------------------------
\* C2: a name resolves to the pre-seeded standard type whenever it is in the
\* standard tier, otherwise to the user-tier type registered under it, and
\* fails with an unknown-type error exactly when it is in neither tier; a
\* redeclaration of a standard name never fails the build and constructs
\* nothing, and every reference to the name (the registry, the type list, the
\* roots, union members, forced fields and their arguments) is the original
\* standard type object.

RefNames(fds) ==
    {fds[i].type.name : i \in 1..Len(fds)}
        \cup UNION {{fds[i].args[k].type.name : k \in 1..Len(fds[i].args)} : i \in 1..Len(fds)}
DocumentNames ==
    UNION {{d.name} \cup RefNames(d.fields) \cup RefNames(d.args)
               \cup {d.interfaces[i] : i \in 1..Len(d.interfaces)}
               \cup {d.types[i] : i \in 1..Len(d.types)}
               \cup {d.ops[i].name : i \in 1..Len(d.ops)}
           : d \in {Defs[i] : i \in 1..Len(Defs)}}

IsOriginal(t) == t.name \in DOMAIN StandardTypes => GetNamed(t) = StandardTypes[t.name]

\* C2, the property: in every state of a build a standard name resolves to the
\* original standard type, and redeclaring it is no failure.
C2_StandardTypesWin ==
    (pc # "start" /\ documentNode.Kind = "Document") =>
    /\ stdTypeMap = StandardTypes
    /\ \A n \in DocumentNames \cup DOMAIN StandardTypes :
         LET r == getNamedType(stdTypeMap, typeMap, n)
         IN /\ n \in DOMAIN StandardTypes => r.ok /\ r.val = StandardTypes[n]
            /\ n \notin DOMAIN StandardTypes /\ n \in DOMAIN typeMap =>
                   r.ok /\ r.val = typeMap[n]
            /\ ~r.ok <=> (n \notin DOMAIN StandardTypes /\ n \notin DOMAIN typeMap)
            /\ ~r.ok => r.err = Error("UnknownType", n)
    /\ FailedAtTypeDef => typeDefs[idx].name \notin DOMAIN StandardTypes
    /\ \A n \in DOMAIN typeMap : IsOriginal(typeMap[n])
    /\ \A j \in DOMAIN heap :
         /\ IsOriginal(heap[j].type)
         /\ \A k \in 1..Len(heap[j].members) : IsOriginal(heap[j].members[k])
    /\ \A t \in ret.config.Types \cup
                {ret.config.Query, ret.config.Mutation, ret.config.Subscription} :
         IsOriginal(t)
    /\ \A j \in DOMAIN forcedFields : \A n \in DOMAIN forcedFields[j] :
         /\ IsOriginal(forcedFields[j][n].type)
         /\ \A a \in DOMAIN forcedFields[j][n].args : IsOriginal(forcedFields[j][n].args[a])
    /\ \A j \in DOMAIN forcedInterfaces : \A k \in 1..Len(forcedInterfaces[j]) :
         IsOriginal(forcedInterfaces[j][k])

\* A document redeclares ID, the build returns a config whose registry entry for
\* ID is the standard scalar, and a forced field of type ID holds it.
C2_Witness ==
    /\ Succeeded
    /\ \E i \in 1..Len(Defs) : Defs[i] = ScalarDef("ID")
    /\ "ID" \in DOMAIN typeMap /\ typeMap["ID"] = StandardTypes["ID"]
    /\ StandardTypes["ID"] \in ret.config.Types
    /\ \E j \in DOMAIN forcedFields : \E n \in DOMAIN forcedFields[j] :
         GetNamed(forcedFields[j][n].type) = StandardTypes["ID"]

----------------------------------------------------------------------------
\* C3: wherever a union definition stands in the document, it is built only
\* after every non-union type definition of the document has been registered;
\* a union whose members are all object types defined in the document is
\* constructed, with the registered objects as its members, once the
\* conversion reaches it, and no union fails with an unknown-type error for a
\* name the document defines as a non-union type.

NonUnionsRegistered ==
    \A i \in 1..Len(Defs) : Defs[i].kind \in TypeDefKinds => Defs[i].name \in DOMAIN typeMap

\* m names an object type of the document: an object definition, no other type
\* definition of that name, and not a standard name.
DefinedObject(m) ==
    /\ m \notin DOMAIN StandardTypes
    /\ \E i \in 1..Len(Defs) : Defs[i].kind = "ObjectDefinition" /\ Defs[i].name = m
    /\ \A i \in 1..Len(Defs) :
         Defs[i].kind \in TypeDefKinds \cup {"UnionDefinition"} /\ Defs[i].name = m
             => Defs[i].kind = "ObjectDefinition"
AllDefinedObjects(u) == \A k \in 1..Len(u.types) : DefinedObject(u.types[k])

\* C3, the property: a union is converted after every non-union definition, and
\* a union of defined object types is built without an unknown-type error.
C3_UnionsBuiltLast ==
    /\ (pc = "convert" /\ idx <= Len(typeDefs) /\ typeDefs[idx].kind = "UnionDefinition")
         => NonUnionsRegistered
    /\ \A j \in DOMAIN heap : heap[j].type.kind = "Union" =>
         /\ NonUnionsRegistered
         /\ Len(heap[j].members) = Len(heap[j].node.types)
         /\ \A k \in 1..Len(heap[j].members) :
              heap[j].members[k] = Registered(heap[j].node.types[k])
    /\ \A j \in 1..Len(typeDefs) :
         (/\ typeDefs[j].kind = "UnionDefinition"
          /\ typeDefs[j].name \notin DOMAIN StandardTypes
          /\ AllDefinedObjects(typeDefs[j])
          /\ pc # "classify") =>
             /\ ~(FailedAtTypeDef /\ idx = j)
             /\ idx > j => j \in DOMAIN heap /\ heap[j].type.kind = "Union"
    /\ (FailedAtTypeDef /\ ret.err.code = "UnknownType") =>
         \A i \in 1..Len(Defs) : Defs[i].kind \in TypeDefKinds => Defs[i].name # ret.err.name

\* A union that stands first in the document, before the two object types it
\* names, has been constructed with both as members and returned.
C3_Witness ==
    /\ Succeeded
    /\ Len(Defs) >= 3 /\ Defs[1].kind = "UnionDefinition"
    /\ Defs[2].kind = "ObjectDefinition" /\ Defs[3].kind = "ObjectDefinition"
    /\ \E j \in DOMAIN heap :
         /\ heap[j].node = Defs[1]
         /\ Len(heap[j].members) = 2
         /\ heap[j].members[1] # heap[j].members[2]
         /\ heap[j].type \in ret.config.Types
----------------------------------------------------------------------------
\* C4: if a member name of a union of the document resolves to a type that is
\* not an Object, the build fails and returns no config, with the
\* union-member-not-an-object error naming that member when the build got as
\* far as that member (no earlier definition or member failed first); and no
\* union is constructed with a member that is not an Object.

NonObjectMember(m) == Registered(m) # NilType /\ Registered(m).kind # "Object"
\* The members of a union before its k-th all resolve to objects.
ObjectsBefore(ms, k) == \A m \in 1..(k - 1) : Registered(ms[m]).kind = "Object"

\* C4, the property: a union member that is not an object fails the build.
C4_NonObjectMemberFails ==
    /\ \A j \in DOMAIN heap : \A k \in 1..Len(heap[j].members) :
           heap[j].members[k].kind = "Object"
    /\ pc = "done" =>
         \A i \in 1..Len(Defs) : Defs[i].kind = "UnionDefinition" =>
             \A k \in 1..Len(Defs[i].types) : NonObjectMember(Defs[i].types[k]) =>
                 /\ ret.config.nil
                 /\ ret.err # NoErr
                 /\ (FailedAtTypeDef /\ typeDefs[idx] = Defs[i]
                        /\ ObjectsBefore(Defs[i].types, k)) =>
                       ret.err = Error("UnionMemberNotObject", Defs[i].types[k])

----------------------------------------------------------------------------
\* C5: a thunk that has been forced without a panic left nothing out: every
\* field definition it was given is in the field map, with a type that is in
\* the registry and passes the capability cast, and every interface name it was
\* given is in the interface list.

ThunkFieldDefs(j) ==
    IF heap[j].type.kind = "InputObject" THEN heap[j].node.fields ELSE heap[j].fieldDefs
ThunkInterfaceNames(j) == heap[j].node.interfaces \o FragmentInterfaces(heap[j].node.name)

\* C5, the property: a thunk forced without a panic dropped no entry.
C5_ThunkFailuresAbort ==
    /\ \A j \in DOMAIN forcedFields :
         \A i \in 1..Len(ThunkFieldDefs(j)) :
             /\ ThunkFieldDefs(j)[i].name \in DOMAIN forcedFields[j]
             /\ Registered(ThunkFieldDefs(j)[i].type.name) # NilType
    /\ \A j \in DOMAIN forcedInterfaces :
         /\ Len(forcedInterfaces[j]) = Len(ThunkInterfaceNames(j))
         /\ \A k \in 1..Len(ThunkInterfaceNames(j)) :
              Registered(ThunkInterfaceNames(j)[k]).kind = "Interface"

----------------------------------------------------------------------------
\* C6: when the document has a schema block, an operation the block lists with
\* the name of an object type has that type as its root, whether or not the
\* document defines an object type with the conventional name. (Of several
\* schema blocks the last one is the document's, and of several listings of
\* one operation the last that names an object type.)

SchemaBlocks == DefsOf({"SchemaDefinition"})
LastSchemaBlock == SchemaBlocks[Len(SchemaBlocks)]
Operations == {"query", "mutation", "subscription"}
ConventionalName(op) ==
    CASE op = "query" -> "Query" [] op = "mutation" -> "Mutation"
      [] op = "subscription" -> "Subscription"
Root(config, op) ==
    CASE op = "query" -> config.Query [] op = "mutation" -> config.Mutation
      [] op = "subscription" -> config.Subscription

\* The listings of an operation that name an object type, in the block's order.
ObjectListings(op) ==
    SelectSeq(LastSchemaBlock.ops,
              LAMBDA o : o.operation = op /\ Registered(o.name).kind = "Object")
DefinesObject(n) ==
    \E i \in 1..Len(Defs) : Defs[i].kind = "ObjectDefinition" /\ Defs[i].name = n

\* C6, the property: a listed object type is the root of its operation.
C6_SchemaBlockOverrides ==
    (Succeeded /\ SchemaBlocks # <<>>) =>
        \A op \in Operations : ObjectListings(op) # <<>> =>
            Root(ret.config, op)
                = Registered(ObjectListings(op)[Len(ObjectListings(op))].name)

\* A single block lists query: A while the document defines an object Query
\* too, and the returned query root is A's object, not Query's.
C6_Witness ==
    /\ Succeeded
    /\ Len(SchemaBlocks) = 1
    /\ LastSchemaBlock.ops = <<OpType("query", "A")>>
    /\ DefinesObject("Query") /\ DefinesObject("A")
    /\ ret.config.Query = typeMap["A"]
    /\ ret.config.Query # typeMap["Query"]

----------------------------------------------------------------------------
\* C7: an operation that no schema block of the document lists has as its
\* root the object type of the conventional name (Query, Mutation,
\* Subscription) when the document defines one, and no root otherwise.

Unlisted(op) ==
    \/ SchemaBlocks = <<>>
    \/ \A i \in 1..Len(LastSchemaBlock.ops) : LastSchemaBlock.ops[i].operation # op

\* C7, the property: an unlisted operation falls back to the conventional type.
C7_ConventionalRoots ==
    Succeeded =>
        \A op \in Operations : Unlisted(op) =>
            Root(ret.config, op)
                = IF DefinesObject(ConventionalName(op))
                  THEN Registered(ConventionalName(op)) ELSE NilType

----------------------------------------------------------------------------
\* C8: for a document that holds at least one definition the classifier knows,
\* the directive list of the returned config is the document's directive
\* definitions in document order followed by each of skip, include,
\* deprecated and specifiedBy that the document does not declare.

KnownKinds ==
    TypeDefKinds \cup {"UnionDefinition", "TypeExtensionDefinition",
                       "DirectiveDefinition", "SchemaDefinition"}
BuiltinNames == <<"skip", "include", "deprecated", "specifiedBy">>
DeclaredDirectives == DefsOf({"DirectiveDefinition"})
Declared(n) == \E i \in 1..Len(DeclaredDirectives) : DeclaredDirectives[i].name = n
DirectiveNames(ds) == [i \in 1..Len(ds) |-> ds[i].name]

\* C8, the property: the directive list of every config returned for a document
\* with a known definition is the declared directives followed by the missing
\* built-ins.
C8_DirectiveList ==
    (Succeeded /\ DefsOf(KnownKinds) # <<>>) =>
        /\ DirectiveNames(ret.config.Directives)
             = DirectiveNames(DeclaredDirectives)
                   \o SelectSeq(BuiltinNames, LAMBDA n : ~Declared(n))
        /\ \A i \in 1..Len(ret.config.Directives) :
             (ret.config.Directives[i].origin = 0) <=> (i > Len(DeclaredDirectives))
----------------------------------------------------------------------------
\* C9: the forced field map of a constructed object or interface type holds
\* exactly the field names of its definition and of every `extend type`
\* fragment of its name, each with the type it was declared with; the merge
\* runs over the definition's fields first and then the fragments' in document
\* order, so of a repeated field name the last declaration is the one kept.

MergedFieldDefs(j) == heap[j].node.fields \o FragmentFields(heap[j].node.name)

\* C9, the property: the forced field map is the merge of the definition and
\* its fragments, the later declaration of a name kept.
C9_ExtensionFieldsMerged ==
    \A j \in DOMAIN forcedFields : heap[j].type.kind \in {"Object", "Interface"} =>
        /\ heap[j].node = typeDefs[j]
        /\ DOMAIN forcedFields[j] = FieldNames(MergedFieldDefs(j))
        /\ \A n \in DOMAIN forcedFields[j] :
             /\ forcedFields[j][n].type = Denoted(LastField(MergedFieldDefs(j), n).type)
             /\ Registered(LastField(MergedFieldDefs(j), n).type.name) # NilType

\* An object and an interface, each with one field of its own and two
\* fragments after it, forced: three field names, the repeated one with the
\* type of the later fragment.
C9_Witness ==
    /\ Len(Defs) = 3 /\ Len(Fragments("X")) = 2
    /\ Fragments("X")[1] # Fragments("X")[2]
    /\ \E j \in DOMAIN forcedFields :
         /\ heap[j].type.kind \in {"Object", "Interface"}
         /\ heap[j].node.name = "X"
         /\ Cardinality(DOMAIN forcedFields[j]) >= 2
         /\ "g" \in FieldNames(heap[j].node.fields) =>
              forcedFields[j]["g"].type.wrap
                  = LastField(FragmentFields("X"), "g").type.wrap
         /\ "f" \in DOMAIN forcedFields[j]

----------------------------------------------------------------------------
\* C10: the forced interface list of an object type is the interfaces its
\* definition's implements clause names, in declaration order, followed by the
\* interfaces its extension fragments name, in registration order.

C10_InterfacesListed ==
    \A j \in DOMAIN forcedInterfaces :
        forcedInterfaces[j] =
            [k \in 1..Len(ThunkInterfaceNames(j)) |-> Registered(ThunkInterfaceNames(j)[k])]

----------------------------------------------------------------------------
\* C11: the type list of the returned config holds only types the build
\* constructed, and a standard scalar is in it only if some field or argument
\* of the document refers to it.

StandardScalars == {"String", "Int", "Float", "Boolean", "ID"}
\* The names the fields and arguments of the document refer to.
ReferencedNames ==
    UNION {RefNames(Defs[i].fields) \cup RefNames(Defs[i].args) : i \in 1..Len(Defs)}

\* C11, the property: no unreferenced standard scalar, and nothing that the
\* build did not construct, is in the type list.
C11_StandardScalarsOnDemand ==
    Succeeded =>
        \A t \in ret.config.Types :
            /\ t.origin > 0
            /\ t.name \in StandardScalars => t.name \in ReferencedNames

----------------------------------------------------------------------------
\* C12: for a type reference built from Named, List and NonNull nodes over a
\* name that resolves, getWrappedType returns the registry entry of the name
\* under the same wrappers, in the same order and to the same depth, so that
\* unwrapping it as many times as the reference is nested gives the named type;
\* over a name that does not resolve it returns the unknown-type error of the
\* name and no type.

\* The type references of the fields of the document.
FieldTypeRefs ==
    UNION {{Defs[i].fields[k].type : k \in 1..Len(Defs[i].fields)} : i \in 1..Len(Defs)}

\* ofType: one wrapper taken off.
OfType(t) == [t EXCEPT !.wrap = Tail(@)]
RECURSIVE Unwrapped(_, _)
Unwrapped(t, n) == IF n = 0 THEN t ELSE Unwrapped(OfType(t), n - 1)

\* C12, the property: the wrappers of the result mirror those of the reference.
C12_WrappersMirrorAst ==
    /\ (pc # "start" /\ documentNode.Kind = "Document") =>
         \A t \in FieldTypeRefs :
             LET r == getWrappedType(stdTypeMap, typeMap, t)
             IN /\ Registered(t.name) # NilType =>
                     /\ r.ok
                     /\ r.val.wrap = t.wrap
                     /\ Unwrapped(r.val, Len(t.wrap)) = Registered(t.name)
                     /\ \A d \in 0..(Len(t.wrap) - 1) :
                            DynType(Unwrapped(r.val, d)) = <<"*", t.wrap[d + 1]>>
                /\ Registered(t.name) = NilType =>
                     ~r.ok /\ r.err = Error("UnknownType", t.name) /\ r.val = NilType
    /\ \A j \in DOMAIN forcedFields : \A n \in DOMAIN forcedFields[j] :
         LET t == LastField(heap[j].fieldDefs, n).type
         IN /\ forcedFields[j][n].type.wrap = t.wrap
            /\ GetNamed(forcedFields[j][n].type) = Registered(t.name)
    /\ pc = "panicked" => panic.code = "UnknownType" /\ Registered(panic.name) = NilType

\* The field of type [String!]! forced: NonNull(List(NonNull(String))).
C12_Witness ==
    \E j \in DOMAIN forcedFields :
        /\ "f" \in DOMAIN forcedFields[j]
        /\ forcedFields[j]["f"].type.wrap = <<"NonNull", "List", "NonNull">>
        /\ Unwrapped(forcedFields[j]["f"].type, 3) = StandardTypes["String"]

----------------------------------------------------------------------------
\* C13: BuildAstSchema called with a nil document, or with a document whose
\* top-level kind is not Document, returns the error "Must provide valid
\* Document AST." and no schema, with no registry populated and no definition
\* classified; a document of kind Document never gets that error.

InvalidDocument == Error("InvalidDocument", "")
NothingDone ==
    /\ stdTypeMap = EmptyMap /\ typeMap = EmptyMap /\ typeExtensionsMap = EmptyMap
    /\ typeDefs = <<>> /\ directiveDefs = <<>> /\ unionDefs = <<>> /\ schemaDef = NilNode
    /\ idx = 0 /\ heap = EmptyMap /\ schemaConfig = EmptyConfig

\* C13, the property: an invalid document is refused before anything is done.
C13_InvalidDocumentRejected ==
    /\ documentNode.Kind # "Document" =>
         /\ NothingDone
         /\ pc \in {"start", "done"}
         /\ pc = "done" => ret = [config |-> NilConfig, err |-> InvalidDocument]
    /\ documentNode.Kind = "Document" => ret.err # InvalidDocument

\* A document of kind "" that holds definitions, refused.
C13_Witness ==
    /\ pc = "done"
    /\ documentNode.Kind = "" /\ Len(Defs) > 0
    /\ ret.err = InvalidDocument /\ ret.config.nil

----------------------------------------------------------------------------
\* C14: for a document that holds no type definition, no type extension, no
\* directive definition and no schema block (an empty document, or one of
\* executable definitions only), buildSchemaConfig returns the empty
\* SchemaConfig: no roots, no types, no directives, the built-in directives
\* not added, and no error; nothing is converted on the way.

NoSchemaDefinitions == documentNode.Kind = "Document" /\ DefsOf(KnownKinds) = <<>>

\* C14, the property: a document without schema definitions gives the empty config.
C14_EmptyDocumentEmptyConfig ==
    NoSchemaDefinitions =>
        /\ pc \in {"start", "classify", "done"}
        /\ typeMap = EmptyMap /\ heap = EmptyMap
        /\ pc = "done" =>
             /\ ret.err = NoErr
             /\ ret.config = EmptyConfig
             /\ ret.config.Directives = <<>> /\ ret.config.Types = {}
             /\ ret.config.Query = NilType /\ ret.config.Mutation = NilType
             /\ ret.config.Subscription = NilType

\* A document of two executable definitions, returned from.
C14_Witness ==
    /\ pc = "done"
    /\ Defs = <<OperationDef, OperationDef>>
    /\ ret = [config |-> EmptyConfig, err |-> NoErr]

----------------------------------------------------------------------------
\* C15: a failure on the eager path (an unknown union member or operation
\* type, a union member that is no object, a directive argument of unknown
\* type) ends the build where it happens: buildSchemaConfig returns a nil
\* config exactly when it returns an error, nothing runs after a failure, and a
\* config that is returned after the conversion is complete (every type of the
\* registry in its list, every directive definition in its directives).

NilIffError == pc = "done" => (ret.config.nil <=> ret.err # NoErr)
NothingReturnedYet == pc \notin {"done", "panicked"} => ret = [config |-> NilConfig, err |-> NoErr]
CompleteConfig ==
    (Succeeded /\ ~NothingToBuild) =>
        /\ ret.config.Types = {typeMap[n] : n \in DOMAIN typeMap}
        /\ \A i \in 1..Len(typeDefs) : typeDefs[i].name \in DOMAIN typeMap
        /\ \A i \in 1..Len(directiveDefs) : ret.config.Directives[i].name = directiveDefs[i].name
        /\ Len(ret.config.Directives) >= 4
\* The definition the build failed at is the first that fails: all before it
\* are registered, none after it.
AbortedAtFirst ==
    FailedAtTypeDef =>
        /\ \A i \in 1..(idx - 1) : typeDefs[i].name \in DOMAIN typeMap
        /\ DOMAIN heap \subseteq 1..(idx - 1)
        /\ schemaConfig = EmptyConfig

\* C15, the property: an error comes with a nil config and ends the build.
C15_NoPartialConfig ==
    /\ [](NilIffError /\ NothingReturnedYet /\ CompleteConfig /\ AbortedAtFirst)
    /\ [][~Failed]_vars

\* The build failed at a directive, after the types were converted and listed:
\* nothing of them is returned.
C15_Witness ==
    /\ Failed /\ ret.config.nil
    /\ pc = "done" /\ schemaConfig.Types # {}
    /\ ret.err = Error("UnknownType", "Missing")
    /\ Len(directiveDefs) > 0

----------------------------------------------------------------------------
\* C16: a process that builds the same document twice, in any order and with
\* other builds in between, gets the same root names, type names, field names
\* per type and directive names both times; every build starts from a registry
\* and an extension map of its own and reads the standard table unmodified.

\* The build that has just returned agrees with every earlier build of the
\* same document, and so do the earlier builds with one another.
SameAsBefore ==
    /\ pc = "done" =>
         \A i \in 1..Len(built) :
             built[i].document = documentNode => built[i].summary = Summary
    /\ \A i, k \in 1..Len(built) :
         built[i].document = built[k].document => built[i].summary = built[k].summary
\* While a build classifies, its registry is empty; its extension map holds
\* only fragments of its own document; its standard table is the original.
OwnRegistry ==
    (pc \in {"classify", "convert", "schema", "directives", "specified"}) =>
        /\ stdTypeMap = StandardTypes
        /\ pc = "classify" => typeMap = EmptyMap
        /\ \A n \in DOMAIN typeMap : \E i \in 1..Len(Defs) : Defs[i].name = n
        /\ \A n \in DOMAIN typeExtensionsMap :
             \A i \in 1..Len(typeExtensionsMap[n]) :
                 \E k \in 1..Len(Defs) : Defs[k] = typeExtensionsMap[n][i]
        /\ \A n \in DOMAIN typeExtensionsMap :
             Len(typeExtensionsMap[n]) <= Len(Fragments(n))

\* C16, the property: a build's result depends on its document only.
C16_BuildsIndependent == SameAsBefore /\ OwnRegistry

\* The third build of a process returns for the document of the first, after
\* a build of another document that registered a type.
C16_Witness ==
    /\ pc = "done" /\ Succeeded
    /\ Len(built) = 2
    /\ built[1].document = documentNode
    /\ built[2].document # documentNode
    /\ built[2].summary.types # {}
    /\ built[1].summary = Summary
    /\ Summary.directives # <<>>

----------------------------------------------------------------------------
\* C17: a named-type lookup made for a field type, an argument type, an input
\* field type, an interface list or a union member list happens only once
\* every type name the document defines is registered; so no such lookup
\* fails with an unknown-type error for a name the document defines.

DefinedTypeNames ==
    {Defs[i].name : i \in {k \in 1..Len(Defs) :
                              Defs[k].kind \in TypeDefKinds \cup {"UnionDefinition"}}}
AllRegistered == DefinedTypeNames \subseteq DOMAIN typeMap
\* The conversion loop is about to look up the members of a union.
UnionLookupPending ==
    /\ pc = "convert" /\ idx <= Len(typeDefs)
    /\ typeDefs[idx].kind = "UnionDefinition"
    /\ typeDefs[idx].name \notin DOMAIN stdTypeMap
    /\ Len(typeDefs[idx].types) > 0
\* A thunk has been forced, with or without a panic.
ThunkLookupDone ==
    DOMAIN forcedFields # {} \/ DOMAIN forcedInterfaces # {} \/ pc = "panicked"

\* C17, the property: lookups for bodies come after all registrations.
C17_TwoPhase ==
    /\ UnionLookupPending => AllRegistered
    /\ ThunkLookupDone => AllRegistered
    /\ (FailedAtTypeDef /\ ret.err.code = "UnknownType") =>
           ret.err.name \notin DefinedTypeNames

----------------------------------------------------------------------------
\* C18: buildArgumentMap keeps exactly the arguments whose type resolves to an
\* input type (a scalar, an enum or an input object, under any List / NonNull
\* wrappers), each with its resolved type; an argument whose type resolves to
\* an object, an interface or a union is left out without an error and the
\* other arguments are kept; an argument whose type name resolves to nothing
\* makes it return the unknown-type error of that name.

\* The argument lists of the document: of its fields and of its directives.
ArgumentLists ==
    UNION {{Defs[i].fields[k].args : k \in 1..Len(Defs[i].fields)} \cup {Defs[i].args}
           : i \in 1..Len(Defs)}
InputKinds == {"Scalar", "Enum", "InputObject"}
Unresolved(args) == {i \in 1..Len(args) : Registered(args[i].type.name) = NilType}
First(S) == CHOOSE i \in S : \A k \in S : i <= k
\* The arguments buildArgumentMap is to keep.
InputArguments(args) ==
    {i \in 1..Len(args) : Registered(args[i].type.name).kind \in InputKinds}
ArgumentsKept(args, argMap) ==
    /\ DOMAIN argMap = {args[i].name : i \in InputArguments(args)}
    /\ \A i \in InputArguments(args) : argMap[args[i].name] = Denoted(args[i].type)

\* C18, the property: arguments that are no input types are left out silently,
\* unknown ones are an error.
C18_NonInputArgumentsOmitted ==
    /\ (pc # "start" /\ documentNode.Kind = "Document") =>
         \A args \in ArgumentLists :
             LET r == buildArgumentMap(stdTypeMap, typeMap, args, EmptyMap)
             IN IF Unresolved(args) = {}
                THEN r.ok /\ ArgumentsKept(args, r.val)
                ELSE ~r.ok
                     /\ r.err = Error("UnknownType", args[First(Unresolved(args))].type.name)
    /\ \A j \in DOMAIN forcedFields : \A n \in DOMAIN forcedFields[j] :
         ArgumentsKept(LastField(ThunkFieldDefs(j), n).args, forcedFields[j][n].args)
    /\ Succeeded =>
         \A i \in 1..Len(directiveDefs) : i <= Len(ret.config.Directives) =>
             ArgumentsKept(directiveDefs[i].args, ret.config.Directives[i].args)

\* The field f(a: A, s: String!, l: [A]) forced: only s is an argument of it.
C18_Witness ==
    \E j \in DOMAIN forcedFields :
        /\ heap[j].node.name = "A"
        /\ Len(heap[j].fieldDefs[1].args) = 3
        /\ DOMAIN forcedFields[j]["f"].args = {"s"}
        /\ forcedFields[j]["f"].args["s"] = NewNonNull(StandardTypes["String"])

----------------------------------------------------------------------------
\* C19: every value of an enum built from a definition that carries
\* @deprecated(reason: R) has the deprecation reason R, and every value of an
\* enum built from a definition without that directive has the empty reason.

\* The reason of the first @deprecated directive of an enum definition, ""
\* when it has none.
DeprecatedReasons(node) ==
    {i \in 1..Len(node.directives) : node.directives[i].name = "deprecated"}
DeclaredReason(node) ==
    IF DeprecatedReasons(node) = {} THEN ""
    ELSE node.directives[First(DeprecatedReasons(node))].reason

\* C19, the property: the values of a built enum carry the reason declared on
\* the enum definition.
C19_EnumDeprecationReason ==
    \A j \in DOMAIN heap :
        heap[j].node.kind = "EnumDefinition" =>
            /\ DOMAIN heap[j].values =
                   {heap[j].node.values[i] : i \in 1..Len(heap[j].node.values)}
            /\ \A v \in DOMAIN heap[j].values :
                   heap[j].values[v] = DeclaredReason(heap[j].node)

----------------------------------------------------------------------------
\* C20: no type definition is lost. After a build without error every named
\* type definition of the document (object, interface, enum, scalar, input
\* object, union) has a type of its name among the Types of the schema
\* configuration, also when the document defines nothing but unions.

\* The names of the types of the returned schema configuration.
ReturnedTypeNames == {t.name : t \in ret.config.Types}

\* C20, the property: a successful build returns a type for every named type
\* definition of the document.
C20_NoDefinitionLost ==
    Succeeded => \A n \in DefinedTypeNames : n \in ReturnedTypeNames

====
